---- MODULE Spec2Model ----
(***************************************************************************)
(* Model of opt_algos/bopt_utils.py: the noise-likelihood provider, the    *)
(* multi-fidelity composite kernel constructor, and the two acquisition    *)
(* scorers compute_ei and compute_lcb.                                     *)
(*                                                                         *)
(* Tensor values are fixed-point numbers.  Targets, means, standard        *)
(* deviations, xi and beta are integers counting 1/Unit (tenths); a        *)
(* variance counts 1/Unit^2; the standard score z counts 1/Unit; values of *)
(* the normal CDF and density count 1/PhiUnit; an EI score counts          *)
(* 1/(Unit*PhiUnit) and an LCB score 1/Unit^2.  IEEE infinities and NaN,   *)
(* which torch produces instead of raising on a division by zero, are      *)
(* kept as separate kinds of value.                                        *)
(***************************************************************************)
EXTENDS Integers, Sequences, FiniteSets, TLC

VARIABLES
    model_training,   \* model.training: the GP model's mode flag
    lik_training,     \* likelihood.training: the likelihood's mode flag
    gp,               \* what the GP engine predicts at the query point
    engine,           \* the GP engine's gradient behaviour
    last,             \* <<>> or <<record of the latest scorer call>>
    rel,              \* <<>> or <<how the latest call compares with the one before>>
    pc,               \* 0, or the index in the running call's program of the statement to run
    frame,            \* <<>> or <<the running call's function, with_grad and entry modes>>
    grad_enabled,     \* torch's global gradient-tracking switch
    inside,           \* statements of the running call executed while tracking is off
    saved_grad,       \* <<>> or <<the switch's value saved on entering torch.no_grad()>>
    graph,            \* tensors of the running call that carry a graph node
    predicted_in,     \* <<>> or the two mode flags as they were when model(test_x) ran
    returned,         \* number of scorer calls that have returned
    likelihoods,      \* the likelihoods built so far, oldest first
    kernel            \* <<>> or <<the composite kernel built last>>

vars == <<model_training, lik_training, gp, engine, last, rel, pc, frame,
          grad_enabled, inside, saved_grad, graph, predicted_in, returned,
          likelihoods, kernel>>

scorer_vars == <<gp, last, rel>>
step_vars == <<engine, pc, frame, grad_enabled, inside, saved_grad, graph,
               predicted_in, returned>>
build_vars == <<likelihoods, kernel>>

---------------------------------------------------------------------------
(* Bounds of the model *)

MaxLen == 2
MaxSigma == 2
MaxBeta == 2
MaxTrain == 4
MaxCalls == 2

(* Resolution of the fixed-point tensors *)
Unit == 10
PhiUnit == 1000000

YVals == {0, 1}
Scenario_train_y == <<5, 3, 8, 2, 6>>
TrainYs == {Scenario_train_y} \cup UNION {[1..n -> YVals] : n \in 1..MaxLen}
Xis == {0, 1}
Betas == {b * Unit : b \in 0..MaxBeta}
Means == {0, 2, 4}
Variances == {s * s : s \in 0..MaxSigma}
Preds == [mean : Means, variance : Variances]

---------------------------------------------------------------------------
(* Tensor arithmetic *)

Fin(v) == [nan |-> FALSE, v |-> v]
NaN == [nan |-> TRUE, v |-> 0]

Abs(a) == IF a < 0 THEN -a ELSE a

\* a / b rounded to the nearest integer, halves away from zero (b > 0)
RoundDiv(a, b) ==
    IF a >= 0 THEN (2 * a + b) \div (2 * b) ELSE -((2 * (-a) + b) \div (2 * b))

\* tensor.min()
RECURSIVE TensorMin(_)
TensorMin(t) ==
    IF Len(t) = 1 THEN t[1]
    ELSE LET m == TensorMin(Tail(t)) IN IF t[1] < m THEN t[1] ELSE m

\* tensor.sqrt() of a variance, in 1/Unit
Sqrt(v) == CHOOSE r \in 0..v : r * r <= v /\ (r + 1) * (r + 1) > v

\* delta / sigma: a finite quotient, or IEEE's answer for a zero divisor
Div(delta, sigma) ==
    IF sigma # 0 THEN [kind |-> "fin", v |-> RoundDiv(delta * Unit, sigma)]
    ELSE IF delta > 0 THEN [kind |-> "pinf", v |-> 0]
    ELSE IF delta < 0 THEN [kind |-> "ninf", v |-> 0]
    ELSE [kind |-> "nan", v |-> 0]

\* Normal(0,1).cdf and density at z = i/Unit, i = 0, 1, ..., each in 1/PhiUnit
CdfTable ==
    <<500000, 539828, 579260, 617911, 655422, 691462, 725747, 758036, 788145,
      815940, 841345, 864334, 884930, 903200, 919243, 933193, 945201, 955435,
      964070, 971283, 977250, 982136, 986097, 989276, 991802, 993790, 995339,
      996533, 997445, 998134, 998650, 999032, 999313, 999517, 999663, 999767,
      999841, 999892, 999928, 999952, 999968, 999979, 999987, 999991, 999995,
      999997, 999998, 999999, 999999, 1000000, 1000000, 1000000, 1000000>>
PdfTable ==
    <<398942, 396953, 391043, 381388, 368270, 352065, 333225, 312254, 289692,
      266085, 241971, 217852, 194186, 171369, 149727, 129518, 110921, 94049,
      78950, 65616, 53991, 43984, 35475, 28327, 22395, 17528, 13583, 10421,
      7915, 5953, 4432, 3267, 2384, 1723, 1232, 873, 612, 425, 292, 199, 134,
      89, 59, 39, 25, 16, 10, 6, 4, 2, 1, 1, 1>>

\* torch.distributions.Normal(0, 1).cdf(z)
cdf(z) ==
    CASE z.kind = "nan" -> NaN
      [] z.kind = "pinf" -> Fin(PhiUnit)
      [] z.kind = "ninf" -> Fin(0)
      [] OTHER ->
           LET a == Abs(z.v)
               up == IF a < Len(CdfTable) THEN CdfTable[a + 1] ELSE PhiUnit
           IN Fin(IF z.v >= 0 THEN up ELSE PhiUnit - up)

\* Variant: the log-density itself, the torch.exp around it left out
log_prob(z) ==
    CASE z.kind = "nan" -> NaN
      [] z.kind \in {"pinf", "ninf"} -> Fin(-(1000 * PhiUnit))
      [] OTHER -> Fin(-((z.v * z.v * PhiUnit) \div (2 * Unit * Unit)) - 918939)

\* torch.exp(torch.distributions.Normal(0, 1).log_prob(z))
pdf(z) ==
    CASE z.kind = "nan" -> NaN
      [] z.kind \in {"pinf", "ninf"} -> Fin(0)
      [] OTHER ->
           LET a == Abs(z.v)
           IN Fin(IF a < Len(PdfTable) THEN PdfTable[a + 1] ELSE 0)

\* a * x for a finite a and a tensor value x
Mul(a, x) == IF x.nan THEN NaN ELSE Fin(a * x.v)

\* x + y
Add(x, y) == IF x.nan \/ y.nan THEN NaN ELSE Fin(x.v + y.v)

---------------------------------------------------------------------------
(* The GP engine at the query point *)

\* Prior of a freshly constructed ExactGPModel: zero constant mean
PriorMean == 0
Prior == [mean |-> PriorMean, variance |-> MaxSigma * MaxSigma]

\* observed_pred = likelihood(model(test_x)): the prior while the model is in
\* training mode, the posterior once it is in evaluation mode
Predict(g, training) == IF training THEN Prior ELSE g

---------------------------------------------------------------------------
(* The acquisition scorers, a whole call at a time *)

\* module.eval(): the mode flag after the call, whatever it was before
ModuleEval(training) == FALSE

\* Variant: the prediction made in the mode the model was entered in
PredictBeforeEval(g, training) == Predict(g, training)

\* model.eval(); likelihood.eval(); observed_pred = likelihood(model(test_x))
ScorerPredict(g, training) == Predict(g, ModuleEval(training))

\* Variant: the first observed target taken for the best one
ei_score_first_target(train_y, xi, mean, variance) ==
    LET y_best == train_y[1]
        delta == (y_best + xi) - mean
        sigma == Sqrt(variance)
        t1 == Mul(delta, cdf(Div(delta, sigma)))
        t2 == Mul(sigma, pdf(Div(delta, sigma)))
    IN Add(t1, t2)

\* Variant: a guard that scores a point of zero standard deviation 0
ei_score_guarded(train_y, xi, mean, variance) ==
    LET y_best == TensorMin(train_y)
        delta == (y_best + xi) - mean
        sigma == Sqrt(variance)
        t1 == Mul(delta, cdf(Div(delta, sigma)))
        t2 == Mul(sigma, pdf(Div(delta, sigma)))
    IN IF sigma = 0 THEN Fin(0) ELSE Add(t1, t2)

\* y_best, delta, sigma, t1, t2, ei of compute_ei
ei_score(train_y, xi, mean, variance) ==
    LET y_best == TensorMin(train_y)
        delta == (y_best + xi) - mean
        sigma == Sqrt(variance)
        t1 == Mul(delta, cdf(Div(delta, sigma)))
        t2 == Mul(sigma, pdf(Div(delta, sigma)))
    IN Add(t1, t2)

\* Variant: the score negated
lcb_score_negated(beta, mean, variance) ==
    LET sigma == Sqrt(variance)
    IN Fin(-(mean * Unit - beta * sigma))

\* Variant: the upper bound, mean + beta * sigma
ucb_score(beta, mean, variance) ==
    LET sigma == Sqrt(variance)
    IN Fin(mean * Unit + beta * sigma)

\* sigma, lcb of compute_lcb
lcb_score(beta, mean, variance) ==
    LET sigma == Sqrt(variance)
    IN Fin(mean * Unit - beta * sigma)

compute_ei(g, mt, lt, train_y, with_grad, xi) ==
    LET observed_pred == ScorerPredict(g, mt)
        mean == observed_pred.mean
    IN [model_training |-> ModuleEval(mt),
        lik_training |-> ModuleEval(lt),
        mean |-> mean,
        variance |-> observed_pred.variance,
        out |-> ei_score(train_y, xi, mean, observed_pred.variance)]

compute_lcb(g, mt, lt, with_grad, beta) ==
    LET observed_pred == ScorerPredict(g, mt)
        mean == observed_pred.mean
    IN [model_training |-> ModuleEval(mt),
        lik_training |-> ModuleEval(lt),
        mean |-> mean,
        variance |-> observed_pred.variance,
        out |-> lcb_score(beta, mean, observed_pred.variance)]

\* The record kept of a call: its arguments, the model's mode on entry, the
\* predictive mean and variance it read, and the score it returned
CallRecord(fn, train_y, xi, beta, with_grad, r) ==
    [fn |-> fn, train_y |-> train_y, xi |-> xi, beta |-> beta,
     with_grad |-> with_grad, entry_training |-> model_training,
     mean |-> r.mean, variance |-> r.variance, out |-> r.out]

\* How a call compares with the call made just before it on the same model
Compare(prev, cur) ==
    [args_same |-> /\ prev.fn = cur.fn
                   /\ prev.train_y = cur.train_y
                   /\ prev.xi = cur.xi
                   /\ prev.beta = cur.beta
                   /\ prev.with_grad = cur.with_grad,
     out_same |-> prev.out = cur.out,
     beta_raised |-> prev.fn = "lcb" /\ cur.fn = "lcb" /\ prev.beta < cur.beta,
     out_order |-> IF prev.fn # cur.fn \/ prev.out.nan \/ cur.out.nan THEN "unordered"
                   ELSE IF cur.out.v < prev.out.v THEN "lower"
                   ELSE IF cur.out.v = prev.out.v THEN "equal"
                   ELSE "higher",
     first_in_training |-> prev.entry_training]

Record(cur) ==
    /\ last' = <<cur>>
    /\ rel' = IF last = <<>> THEN <<>> ELSE <<Compare(last[1], cur)>>

ComputeEI ==
    \E train_y \in TrainYs, xi \in Xis, with_grad \in BOOLEAN :
        LET r == compute_ei(gp, model_training, lik_training, train_y, with_grad, xi)
        IN /\ model_training' = r.model_training
           /\ lik_training' = r.lik_training
           /\ Record(CallRecord("ei", train_y, xi, 0, with_grad, r))
           /\ UNCHANGED <<gp, step_vars, build_vars>>

ComputeLCB ==
    \E beta \in Betas, with_grad \in BOOLEAN :
        LET r == compute_lcb(gp, model_training, lik_training, with_grad, beta)
        IN /\ model_training' = r.model_training
           /\ lik_training' = r.lik_training
           /\ Record(CallRecord("lcb", <<>>, 0, beta, with_grad, r))
           /\ UNCHANGED <<gp, step_vars, build_vars>>

\* The caller puts the model and the likelihood into modes of its choice
SetModes ==
    \E m \in BOOLEAN, l \in BOOLEAN :
        /\ <<m, l>> # <<model_training, lik_training>>
        /\ model_training' = m
        /\ lik_training' = l
        /\ last' = <<>>
        /\ rel' = <<>>
        /\ UNCHANGED <<gp, step_vars, build_vars>>

\* The caller refits the model: the posterior at the query point changes
Refit ==
    \E g \in Preds :
        /\ model_training
        /\ lik_training
        /\ g # gp
        /\ gp' = g
        /\ last' = <<>>
        /\ rel' = <<>>
        /\ UNCHANGED <<model_training, lik_training, step_vars, build_vars>>

IdleSteps ==
    /\ pc = 0
    /\ frame = <<>>
    /\ grad_enabled = TRUE
    /\ inside = {}
    /\ saved_grad = <<>>
    /\ graph = {}
    /\ predicted_in = <<>>
    /\ returned = 0

NothingBuilt ==
    /\ likelihoods = <<>>
    /\ kernel = <<>>

Init ==
    /\ model_training = TRUE
    /\ lik_training = TRUE
    /\ gp \in Preds
    /\ engine = [params_require_grad |-> TRUE, lazy_variance |-> TRUE]
    /\ last = <<>>
    /\ rel = <<>>
    /\ IdleSteps
    /\ NothingBuilt

Next == ComputeEI \/ ComputeLCB \/ SetModes \/ Refit

Spec == Init /\ [][Next]_vars

---------------------------------------------------------------------------
(* The acquisition scorers, a statement at a time: modes and gradient tracking *)

\* Variant: the mode switches made after the prediction
PrologueEvalLast(with_grad) ==
    (IF with_grad
     THEN <<"model(test_x)", "likelihood(m_out)">>
     ELSE <<"enter no_grad", "model(test_x)", "likelihood(m_out)", "exit no_grad">>)
    \o <<"model.eval", "likelihood.eval">>

\* Lines 30-39 (54-63): the mode switches, then the prediction, inside
\* torch.no_grad() unless with_grad
Prologue(with_grad) ==
    <<"model.eval", "likelihood.eval">>
    \o (IF with_grad
        THEN <<"model(test_x)", "likelihood(m_out)">>
        ELSE <<"enter no_grad", "model(test_x)", "likelihood(m_out)", "exit no_grad">>)

\* Lines 40-49 of compute_ei, lines 64-69 of compute_lcb
Body(fn) ==
    IF fn = "ei"
    THEN <<"mean", "y_best", "delta", "sigma", "t1", "t2", "ei", "return">>
    ELSE <<"mean", "sigma", "lcb", "return">>

Program(fn, with_grad) == Prologue(with_grad) \o Body(fn)

\* The statement about to run
Stmt == IF pc = 0 THEN "idle" ELSE Program(frame[1].fn, frame[1].with_grad)[pc]

\* The tensors a statement reads to make the tensor of its own name.  The
\* parameters are read by the model call and, when the engine evaluates the
\* predictive variance lazily, again by the access to .variance
Reads(stmt) ==
    CASE stmt = "model(test_x)" -> {"params"}
      [] stmt = "likelihood(m_out)" -> {"model(test_x)"}
      [] stmt = "mean" -> {"likelihood(m_out)"}
      [] stmt = "y_best" -> {"train_y"}
      [] stmt = "delta" -> {"y_best", "mean"}
      [] stmt = "sigma" -> IF engine.lazy_variance THEN {"params"}
                           ELSE {"likelihood(m_out)"}
      [] stmt = "t1" -> {"delta", "sigma"}
      [] stmt = "t2" -> {"delta", "sigma"}
      [] stmt = "ei" -> {"t1", "t2"}
      [] stmt = "lcb" -> {"mean", "sigma"}
      [] OTHER -> {}

\* Leaves of the graph: the parameters when they require gradients
Leaves == IF engine.params_require_grad THEN {"params"} ELSE {}

\* A tensor operation: it leaves a graph node when tracking is on and one of
\* its inputs requires gradients
Execute(stmt) ==
    /\ graph' = IF grad_enabled /\ Reads(stmt) \cap (graph \cup Leaves) # {}
                THEN graph \cup {stmt} ELSE graph
    /\ inside' = IF grad_enabled THEN inside ELSE inside \cup {stmt}

Advance == pc' = pc + 1

Call ==
    \E fn \in {"ei", "lcb"}, with_grad \in BOOLEAN :
        /\ pc = 0
        /\ returned < MaxCalls
        /\ frame' = <<[fn |-> fn, with_grad |-> with_grad,
                       entry |-> <<model_training, lik_training>>]>>
        /\ pc' = 1
        /\ inside' = {}
        /\ graph' = {}
        /\ predicted_in' = <<>>
        /\ UNCHANGED <<model_training, lik_training, engine, grad_enabled,
                       saved_grad, returned, scorer_vars, build_vars>>

StepModelEval ==
    /\ Stmt = "model.eval"
    /\ model_training' = ModuleEval(model_training)
    /\ Advance
    /\ UNCHANGED <<lik_training, engine, frame, grad_enabled, inside, saved_grad,
                   graph, predicted_in, returned, scorer_vars, build_vars>>

StepLikelihoodEval ==
    /\ Stmt = "likelihood.eval"
    /\ lik_training' = ModuleEval(lik_training)
    /\ Advance
    /\ UNCHANGED <<model_training, engine, frame, grad_enabled, inside, saved_grad,
                   graph, predicted_in, returned, scorer_vars, build_vars>>

StepEnterNoGrad ==
    /\ Stmt = "enter no_grad"
    /\ saved_grad' = <<grad_enabled>>
    /\ grad_enabled' = FALSE
    /\ Advance
    /\ UNCHANGED <<model_training, lik_training, engine, frame, inside, graph,
                   predicted_in, returned, scorer_vars, build_vars>>

StepExitNoGrad ==
    /\ Stmt = "exit no_grad"
    /\ grad_enabled' = saved_grad[1]
    /\ saved_grad' = <<>>
    /\ Advance
    /\ UNCHANGED <<model_training, lik_training, engine, frame, inside, graph,
                   predicted_in, returned, scorer_vars, build_vars>>

StepModelCall ==
    /\ Stmt = "model(test_x)"
    /\ predicted_in' = <<model_training, lik_training>>
    /\ Execute(Stmt)
    /\ Advance
    /\ UNCHANGED <<model_training, lik_training, engine, frame, grad_enabled,
                   saved_grad, returned, scorer_vars, build_vars>>

StepTensor ==
    /\ Stmt \in {"likelihood(m_out)", "mean", "y_best", "delta", "sigma", "t1",
                 "t2", "ei", "lcb"}
    /\ Execute(Stmt)
    /\ Advance
    /\ UNCHANGED <<model_training, lik_training, engine, frame, grad_enabled,
                   saved_grad, predicted_in, returned, scorer_vars, build_vars>>

Return ==
    /\ Stmt = "return"
    /\ pc' = 0
    /\ frame' = <<>>
    /\ returned' = returned + 1
    /\ UNCHANGED <<model_training, lik_training, engine, grad_enabled, inside,
                   saved_grad, graph, predicted_in, scorer_vars, build_vars>>

InitGrad ==
    /\ model_training \in BOOLEAN
    /\ lik_training \in BOOLEAN
    /\ gp = Prior
    /\ engine \in [params_require_grad : BOOLEAN, lazy_variance : BOOLEAN]
    /\ last = <<>>
    /\ rel = <<>>
    /\ IdleSteps
    /\ NothingBuilt

NextGrad ==
    \/ Call
    \/ StepModelEval
    \/ StepLikelihoodEval
    \/ StepEnterNoGrad
    \/ StepExitNoGrad
    \/ StepModelCall
    \/ StepTensor
    \/ Return

SpecGrad == InitGrad /\ [][NextGrad]_vars

---------------------------------------------------------------------------
(* The constructors *)

\* 0.1, the fixed noise variance
NoiseLevel == 1

\* Variant: torch.ones(num_train), the factor 0.1 left out
OnesTensor(num_train) == [i \in 1..num_train |-> Unit]

\* torch.ones(num_train) * 0.1
NoiseTensor(num_train) == [i \in 1..num_train |-> (Unit * NoiseLevel) \div Unit]

get_noiseless_likelihood(num_train) ==
    [type |-> "FixedNoiseGaussianLikelihood",
     noise |-> NoiseTensor(num_train),
     training |-> TRUE]

\* Width of the inputs the composite kernel is documented for: dims 0 to 6
InputDim == 7

GammaPrior(concentration, rate) == [concentration |-> concentration, rate |-> rate]

\* gpytorch.kernels.RBFKernel(): no active_dims, default batch shape
RBFKernel ==
    [type |-> "RBFKernel",
     active_dims |-> [given |-> FALSE, dims |-> <<>>],
     batch_shape |-> <<>>,
     priors |-> <<>>]

ExponentialDecayKernel(batch_shape, lengthscale_prior, offset_prior, power_prior, active_dims) ==
    [type |-> "ExponentialDecayKernel",
     active_dims |-> [given |-> TRUE, dims |-> active_dims],
     batch_shape |-> batch_shape,
     priors |-> <<lengthscale_prior, offset_prior, power_prior>>]

\* DataMixtureMultiFidelityKernel.__init__
DataMixtureMultiFidelityKernel(batch_shape, nu) ==
    LET mixture_kernel == RBFKernel
        size_kernel == ExponentialDecayKernel(batch_shape, GammaPrior(30, 60),
                           GammaPrior(30, 60), GammaPrior(30, 60), <<5>>)
        step_kernel == ExponentialDecayKernel(batch_shape, GammaPrior(30, 60),
                           GammaPrior(30, 60), GammaPrior(30, 60), <<6>>)
    IN [mixture_kernel |-> mixture_kernel,
        size_kernel |-> size_kernel,
        step_kernel |-> step_kernel,
        kernels |-> <<mixture_kernel, size_kernel, step_kernel>>]

\* The input columns a kernel acts on: its active_dims, or every column when
\* it was given none
ActiveDims(k) ==
    IF k.active_dims.given
    THEN {k.active_dims.dims[i] : i \in 1..Len(k.active_dims.dims)}
    ELSE 0..(InputDim - 1)

BatchShapes == {<<>>, <<2>>, <<3, 2>>}
Nus == {5, 15, 25}

BuildLikelihood ==
    \E num_train \in 1..MaxTrain :
        LET built == [num_train |-> num_train,
                      likelihood |-> get_noiseless_likelihood(num_train)]
        IN /\ likelihoods' = IF Len(likelihoods) = 2 THEN <<likelihoods[2], built>>
                             ELSE Append(likelihoods, built)
           /\ UNCHANGED <<model_training, lik_training, kernel, scorer_vars,
                          step_vars>>

BuildKernel ==
    \E batch_shape \in BatchShapes, nu \in Nus :
        /\ kernel' = <<[batch_shape |-> batch_shape, nu |-> nu,
                        self |-> DataMixtureMultiFidelityKernel(batch_shape, nu)]>>
        /\ UNCHANGED <<model_training, lik_training, likelihoods, scorer_vars,
                       step_vars>>

InitBuild ==
    /\ model_training = TRUE
    /\ lik_training = TRUE
    /\ gp = Prior
    /\ engine = [params_require_grad |-> TRUE, lazy_variance |-> TRUE]
    /\ last = <<>>
    /\ rel = <<>>
    /\ IdleSteps
    /\ NothingBuilt

NextBuild == BuildLikelihood \/ BuildKernel

SpecBuild == InitBuild /\ [][NextBuild]_vars

---------------------------------------------------------------------------
(* The claims *)

IsEI == last # <<>> /\ last[1].fn = "ei"
IsLCB == last # <<>> /\ last[1].fn = "lcb"

\* The standard deviation the latest call read, from its variance
SigmaOf(call) == CHOOSE s \in 0..call.variance : s * s = call.variance

\* The smallest element of a tensor
Least(t) == CHOOSE y \in {t[i] : i \in 1..Len(t)} : \A i \in 1..Len(t) : y <= t[i]

\* C1: the three sub-kernels of every constructed composite kernel act on
\* pairwise disjoint sets of input dimensions whose union is {0,...,6}: the
\* mixture sub-kernel on {0,...,4}, the size sub-kernel on {5}, the step
\* sub-kernel on {6}.
C1_ActiveDimsPartition ==
    kernel # <<>> =>
        LET k == kernel[1].self
            m == ActiveDims(k.mixture_kernel)
            z == ActiveDims(k.size_kernel)
            t == ActiveDims(k.step_kernel)
        IN /\ m = 0..4
           /\ z = {5}
           /\ t = {6}
           /\ m \cap z = {} /\ m \cap t = {} /\ z \cap t = {}
           /\ m \cup z \cup t = 0..6

\* C2: get_noiseless_likelihood(num_train) returns a likelihood whose noise
\* vector has num_train entries, each equal to 0.1, and two calls with the
\* same num_train return equal noise vectors.
C2_NoiseVector ==
    /\ \A i \in 1..Len(likelihoods) :
           LET noise == likelihoods[i].likelihood.noise
           IN /\ Len(noise) = likelihoods[i].num_train
              /\ \A j \in 1..Len(noise) : noise[j] * 10 = Unit
    /\ \A i, j \in 1..Len(likelihoods) :
           likelihoods[i].num_train = likelihoods[j].num_train
               => likelihoods[i].likelihood.noise = likelihoods[j].likelihood.noise

C2_Witness ==
    /\ Len(likelihoods) = 2
    /\ likelihoods[1].num_train = likelihoods[2].num_train
    /\ likelihoods[1].num_train > 1

\* C3: at a query point of standard deviation s > 0 compute_ei returns
\* delta*Phi(z) + s*phi(z) with y_best the minimum of train_y,
\* delta = (y_best + xi) - m and z = delta / s; for train_y =
\* [0.5, 0.3, 0.8, 0.2, 0.6], xi = 0, m = 0.2, s = 0.1 that is 0.1*phi(0),
\* about 0.0399.
C3_EIFormula ==
    IsEI /\ SigmaOf(last[1]) > 0 =>
        LET c == last[1]
            s == SigmaOf(c)
            delta == (Least(c.train_y) + c.xi) - c.mean
            z == Div(delta, s)
        IN /\ c.mean = gp.mean
           /\ c.out = Fin(delta * cdf(z).v + s * pdf(z).v)
           /\ (c.train_y = <<5, 3, 8, 2, 6>> /\ c.xi = 0 /\ c.mean = 2 /\ s = 1)
                  => /\ c.out = Fin(1 * PdfTable[1])
                     /\ c.out.v >= 398500 /\ c.out.v <= 399500

C3_Witness ==
    /\ IsEI
    /\ last[1].train_y = <<5, 3, 8, 2, 6>>
    /\ last[1].xi = 0
    /\ last[1].mean = 2
    /\ last[1].variance = 1

\* C4: compute_lcb with beta = 0 returns exactly the predictive mean whatever
\* the standard deviation; in general the score is mean - beta*sigma, not
\* negated, so beta = 2.0, mean = 0.4, sigma = 0.1 score 0.2.
C4_LCBFormula ==
    IsLCB =>
        LET c == last[1]
        IN /\ c.mean = gp.mean
           /\ c.beta = 0 => c.out = Fin(c.mean * Unit)
           /\ c.out = Fin(c.mean * Unit - c.beta * SigmaOf(c))
           /\ (c.beta = 20 /\ c.mean = 4 /\ c.variance = 1) => c.out = Fin(20)

C4_Witness ==
    /\ IsLCB
    /\ last[1].beta = 0
    /\ last[1].variance > 0
    /\ last[1].mean > 0

\* C5: at a fixed query point, compute_lcb with a larger beta returns a
\* strictly lower score when sigma > 0 and an equal score when sigma = 0.
C5_LCBMonotone ==
    (IsLCB /\ rel # <<>> /\ rel[1].beta_raised) =>
        IF SigmaOf(last[1]) > 0 THEN rel[1].out_order = "lower"
        ELSE rel[1].out_order = "equal"

C5_Witness ==
    /\ IsLCB
    /\ rel # <<>>
    /\ rel[1].beta_raised
    /\ last[1].variance > 0

\* C6: at a query point of standard deviation sigma > 0, compute_ei with
\* xi = 0 returns a score of at least -1e-6.
C6_EINonNegative ==
    (IsEI /\ last[1].xi = 0 /\ SigmaOf(last[1]) > 0) =>
        /\ ~last[1].out.nan
        /\ last[1].out.v >= -((Unit * PhiUnit) \div 1000000)

C6_Witness ==
    /\ IsEI
    /\ last[1].xi = 0
    /\ last[1].variance > 0
    /\ TensorMin(last[1].train_y) < last[1].mean

\* C7: two scorer calls in a row with identical arguments return equal
\* outputs, whatever modes the model and the likelihood were in before the
\* first of them.
C7_RepeatedCallSameOutput ==
    (rel # <<>> /\ rel[1].args_same) => rel[1].out_same

C7_Witness ==
    /\ rel # <<>>
    /\ rel[1].args_same
    /\ rel[1].first_in_training
    /\ gp # Prior

\* C8: once a scorer call has reached its return, the model and the
\* likelihood are in evaluation mode and stay so through every later scorer
\* call, and both were switched before the prediction was computed.
C8_EvalModePersists ==
    /\ (Stmt = "return" \/ returned > 0) => (~model_training /\ ~lik_training)
    /\ predicted_in # <<>> => predicted_in = <<FALSE, FALSE>>

C8_Witness ==
    /\ Stmt = "return"
    /\ returned = 1
    /\ ~model_training
    /\ ~lik_training
    /\ predicted_in = <<FALSE, FALSE>>

\* The statements that produce the returned score
ScoringStmts(fn) ==
    {"model(test_x)", "likelihood(m_out)", "mean", "sigma"}
    \cup (IF fn = "ei" THEN {"y_best", "delta", "t1", "t2", "ei"} ELSE {"lcb"})

\* C9: with with_grad = False every statement that produces the score runs
\* inside the no-gradient context, so that no graph node is left when the
\* call returns (checked here by that consequence); with with_grad = True no
\* statement runs with tracking off and, the parameters requiring gradients,
\* the nodes of the whole computation are left.
C9_NoGraphRetained ==
    Stmt = "return" =>
        IF frame[1].with_grad
        THEN /\ inside = {}
             /\ engine.params_require_grad =>
                    (ScoringStmts(frame[1].fn) \ {"y_best"}) \subseteq graph
        ELSE graph = {}

====
